---------------------------- MODULE Spec2Model ----------------------------
(***************************************************************************)
(* A model of geosafe's analysis tasks (src/tasks/analysis.py): the        *)
(* orchestrator prepare_analysis, the ingestion task process_impact_result *)
(* with its helper process_impact_layer, the keyword stage                 *)
(* set_layer_purpose and the retention sweeper clean_impact_result.        *)
(*                                                                         *)
(* The catalog (Analysis, Layer and Metadata rows) is the shared state.    *)
(* An ingestion and a sweep are each a sequence of steps: every step is    *)
(* one read or write of the catalog together with the local computation    *)
(* that precedes it in the code.                                           *)
(*                                                                         *)
(* Deleting a Layer row removes the row; a row that references it keeps    *)
(* the id it holds.  file_upload(overwrite=True) gives the Layer row named *)
(* after the uploaded file: the existing row of that name, else a new one. *)
(*                                                                         *)
(* inasafe_metadata_fix works on the metadata documents of a layer: the     *)
(* sidecar file, the metadata_xml column and the file at the QGIS path      *)
(* prefix.  A document is the list of the child elements of its            *)
(* supplementalInformation element; white space is left out.               *)
(*                                                                         *)
(* The specifications share the actions and differ in their inputs:        *)
(*   Spec            ingestions of the Analyses, sample artifacts          *)
(*   SpecArchive     ingestions of one Analysis, every archive             *)
(*   SpecSweep       ingestions, keyword stages and sweeps, in turn        *)
(*   SpecPrepare     prepare_analysis over every extent string             *)
(*   SpecFix         inasafe_metadata_fix over the documents of a layer    *)
(*   SpecMeta        set_layer_purpose and inasafe_metadata_fix interleaved*)
(*   SpecKeyword     create_metadata_object and its retries                *)
(*   SpecChain       prepare_analysis and the execution of its chain       *)
(*   SpecConcurrent  an ingestion and a sweep, interleaved                 *)
(***************************************************************************)
EXTENDS Integers, Sequences, FiniteSets, TLC

\* ------------------------------------------------------------------ bounds

NumAnalyses == 2
MaxLayers == 2
MaxMembers == 3
MaxExtentLen == 4
MaxHandles == 4

\* --------------------------------------------------------------- constants

\* None, for an integer-valued field (a layer reference, a task id).
NULL == 0

AnalysisIds == 1..NumAnalyses
LayerIds == 1..MaxLayers

\* -------------------------------------------------------------- file names

\* A file name, as os.path.splitext sees it: the part before the last dot
\* and the extension (with its dot).  Stems of the model hold no dot.
File(stem, ext) == [stem |-> stem, ext |-> ext]

NoFile == File("", "")

\* os.path.splitext(name)
SplitExt(name) == <<name.stem, name.ext>>

\* str.lower() on the extensions of the model
Lower(ext) == IF ext = ".ZIP" THEN ".zip" ELSE ext

\* os.path.splitext(impact_path)[1].lower() == '.zip'
IsZipFile(path) == Lower(SplitExt(path)[2]) = ".zip"

\* A scan that also takes the auxiliary file of a shapefile for a layer.
IsSpatialExtWide(ext) == ext \in {".shp", ".tif", ".dbf"}

\* ext in ['.shp', '.tif']
IsSpatialExt(ext) == ext \in {".shp", ".tif"}

\* '%s.pdf' % basename
ReportMapPath(basename) == File(basename, ".pdf")

\* '%s_table.pdf' % basename
ReportTablePath(basename) == File(basename \o "_table", ".pdf")

\* name.split('.')[0]
FirstComponent(name) == name.stem

Range(s) == {s[i] : i \in 1..Len(s)}


\* The members of a zip archive the model draws from: the spatial files,
\* their reports and an auxiliary file.
MemberNames ==
    { File("result", ".shp"), File("other", ".tif"), File("result", ".pdf"),
      File("result_table", ".pdf"), File("result", ".dbf") }

BoundedSeq(S, n) == UNION {[1..k -> S] : k \in 0..n}

\* An impact artifact as download_file leaves it: its path, the member list
\* of a zip archive (zf.namelist()), and the files that already share the
\* directory of a directly accessed file.
Artifact(file, members, siblings) ==
    [file |-> file, members |-> members, siblings |-> siblings]

ZipArtifacts(n) ==
    {Artifact(File("impact", e), m, {}) :
        e \in {".zip", ".ZIP"}, m \in BoundedSeq(MemberNames, n)}

BareArtifacts ==
    { Artifact(File("result", ".shp"), <<>>,
               {File("result", ".dbf"), File("result", ".pdf")}),
      Artifact(File("other", ".tif"), <<>>, {}) }

\* ------------------------------------------------------------------- state

VARIABLES
    analyses,      \* Analysis rows: id -> record
    layers,        \* Layer rows: a set of [id, name]
    nextLayerId,   \* the id the next created Layer row gets
    metadata,      \* Metadata rows: a set of [layer, layer_purpose, category]
    ing,           \* the running process_impact_result task
    sw,            \* the running clean_impact_result task
    chains,        \* the chains submitted to the queue and not yet taken
    nextHandle,    \* the number the next tracking handle is made from
    prep,          \* the outcome of the last prepare_analysis call
    xml,           \* the metadata documents of the layers: layer id -> record
    fix,           \* the running inasafe_metadata_fix task
    slp,           \* the running set_layer_purpose task
    cmo,           \* the create_metadata_object task and its retries
    run            \* the analysis chain the queue is executing

vars == <<analyses, layers, nextLayerId, metadata, ing, sw,
          chains, nextHandle, prep, xml, fix, slp, cmo, run>>

coreVars == <<analyses, layers, nextLayerId, metadata, ing, sw>>

orchVars == <<chains, nextHandle, prep>>

metaVars == <<xml, fix, slp>>

queueVars == <<cmo, run>>

\* An Analysis row as its creator saves it, before any task has run.
NewAnalysis(keep) ==
    [ keep |-> keep, impact_layer |-> NULL, task_id |-> NULL,
      task_state |-> "PENDING", end_time |-> "",
      report_map |-> NoFile, report_table |-> NoFile ]

\* datetime.now().strftime('%Y-%m-%d %H:%M')
Now == "YYYY-mm-dd HH:MM"

IngIdle ==
    [ pc |-> "idle", analysis_id |-> NULL, request_id |-> NULL,
      analysis |-> NewAnalysis(FALSE), before |-> NewAnalysis(FALSE),
      before_layers |-> {},
      impact_path |-> NoFile, is_zipfile |-> FALSE, names |-> <<>>,
      dir |-> {}, name |-> NoFile, basename |-> "",
      saved_layer |-> NULL, current_impact |-> NULL,
      success |-> FALSE, uploads |-> 0 ]

SwIdle ==
    [ pc |-> "idle", todo_analyses |-> {}, todo_metadata |-> {},
      before_analyses |-> <<>>, before_metadata |-> {} ]

LayerIdSet == {l.id : l \in layers}

\* No Metadata row (None).
NoRow ==
    [ id |-> NULL, layer |-> NULL, layer_purpose |-> "None",
      category |-> "None", keywords_xml |-> <<>> ]

SlpIdle ==
    [ pc |-> "idle", layer_id |-> NULL,
      keywords |-> [layer_purpose |-> "None"], row |-> NoRow ]

\* ------------------------------------------------- process_impact_result

RECURSIVE ScanFrom(_, _)
\* for name in zf.namelist(): if ext in ['.shp', '.tif']: ...; break
\* The index of the member the loop processes, 0 when it runs out.
ScanFrom(names, i) ==
    IF i > Len(names) THEN 0
    ELSE IF IsSpatialExt(SplitExt(names[i])[2]) THEN i
    ELSE ScanFrom(names, i + 1)

\* A scan without the break: the last matching member is the one kept.
SelectLastMember(names) ==
    LET hits == {i \in 1..Len(names) : IsSpatialExt(SplitExt(names[i])[2])}
    IN  IF hits = {} THEN 0 ELSE CHOOSE i \in hits : \A j \in hits : j <= i

SelectMember(names) == ScanFrom(names, 1)

\* A checkpoint that also marks the Analysis as failed until a layer is
\* attached.
TrackTaskAsFailed(analysis, request_id) ==
    [analysis EXCEPT !.task_id = request_id, !.task_state = "FAILURE"]

\* Line 312: analysis.task_id = self.request.id
TrackTask(analysis, request_id) ==
    [analysis EXCEPT !.task_id = request_id]

\* Lines 310-334 and 345-346: track the task id on the Analysis and save it,
\* fetch the artifact, extract a zip archive and scan its members up to the
\* call of process_impact_layer.
IngestStart(analysis_id, impact, request_id) ==
    /\ ing.pc = "idle"
    /\ UNCHANGED <<layers, nextLayerId, metadata, sw>>
    /\ UNCHANGED orchVars
    /\ UNCHANGED metaVars
    /\ UNCHANGED queueVars
    /\ IF analysis_id \notin DOMAIN analyses
       THEN \* Analysis.DoesNotExist
            /\ ing' = [ing EXCEPT !.pc = "failed",
                                  !.analysis_id = analysis_id,
                                  !.request_id = request_id]
            /\ UNCHANGED analyses
       ELSE LET analysis == TrackTask(analyses[analysis_id], request_id)
                impact_path == impact.file
                is_zipfile == IsZipFile(impact_path)
                names == IF is_zipfile THEN impact.members ELSE <<>>
                dir == {impact_path} \cup impact.siblings \cup Range(names)
                idx == SelectMember(names)
                found == ~is_zipfile \/ idx > 0
                name == IF ~is_zipfile THEN impact_path
                        ELSE IF idx > 0 THEN names[idx] ELSE NoFile
            IN  /\ analyses' = [analyses EXCEPT ![analysis_id] = analysis]
                /\ ing' = [ing EXCEPT
                        !.pc = IF found THEN "upload" ELSE "cleanup",
                        !.analysis_id = analysis_id,
                        !.request_id = request_id,
                        !.analysis = analysis,
                        !.before = analyses[analysis_id],
                        !.before_layers = LayerIdSet,
                        !.impact_path = impact_path,
                        !.is_zipfile = is_zipfile,
                        !.names = names,
                        !.dir = dir,
                        !.name = name,
                        !.basename = SplitExt(name)[1]]

\* file_upload(path, overwrite=True): the Layer row named after the file, the
\* existing one when a Layer of that name is in the catalog, else a new row.
UploadTarget(name) ==
    LET layer_name == SplitExt(name)[1]
        same == {l \in layers : l.name = layer_name}
    IN  IF same /= {} THEN CHOOSE l \in same : TRUE
        ELSE [id |-> nextLayerId, name |-> layer_name]

\* An upload that takes the prior impact layer out of the catalog at once.
CatalogAfterEagerDelete(saved_layer, current_impact) ==
    {l \in layers : l.id /= current_impact} \cup {saved_layer}

\* Lines 389-391: the catalog once file_upload has returned saved_layer.
\* The impact layer the Analysis has at that time stays where it is.
CatalogAfterUpload(saved_layer, current_impact) ==
    layers \cup {saved_layer}

\* Lines 389-398: upload the file, set permissions and title, save the layer.
IngestUpload ==
    /\ ing.pc = "upload"
    /\ UNCHANGED <<analyses, metadata, sw>>
    /\ UNCHANGED orchVars
    /\ UNCHANGED metaVars
    /\ UNCHANGED queueVars
    /\ \/ \* file_upload raises: the error leaves process_impact_result
          /\ ing' = [ing EXCEPT !.pc = "failed"]
          /\ UNCHANGED <<layers, nextLayerId>>
       \/ LET saved_layer == UploadTarget(ing.name)
          IN  /\ saved_layer.id <= MaxLayers
              /\ layers' = CatalogAfterUpload(saved_layer,
                                              ing.analysis.impact_layer)
              /\ nextLayerId' = IF saved_layer \in layers THEN nextLayerId
                                ELSE nextLayerId + 1
              /\ ing' = [ing EXCEPT !.pc = "save",
                                    !.saved_layer = saved_layer.id,
                                    !.uploads = @ + 1]

\* Lines 399-417: remember the prior impact layer, point the Analysis at the
\* uploaded one, attach the reports found beside it, and save the Analysis.
AttachLayer(analysis, saved_layer, dir, basename, request_id) ==
    [analysis EXCEPT
        !.impact_layer = saved_layer,
        !.report_map = IF ReportMapPath(basename) \in dir
                       THEN ReportMapPath(basename) ELSE @,
        !.report_table = IF ReportTablePath(basename) \in dir
                         THEN ReportTablePath(basename) ELSE @,
        !.task_id = request_id,
        !.task_state = "SUCCESS",
        !.end_time = Now]

IngestSave ==
    /\ ing.pc = "save"
    /\ UNCHANGED <<layers, nextLayerId, metadata, sw>>
    /\ UNCHANGED orchVars
    /\ UNCHANGED metaVars
    /\ UNCHANGED queueVars
    /\ LET analysis == AttachLayer(ing.analysis, ing.saved_layer, ing.dir,
                                   ing.basename, ing.request_id)
       IN  /\ analyses' = [x \in DOMAIN analyses \cup {ing.analysis_id} |->
                            IF x = ing.analysis_id THEN analysis ELSE analyses[x]]
           /\ ing' = [ing EXCEPT !.pc = "delete",
                                 !.current_impact = ing.analysis.impact_layer,
                                 !.analysis = analysis]

\* Lines 392-417: a step between the upload and the saving of the Analysis
\* raises (the permissions, the layer's save, a report, the Analysis' save):
\* the error leaves process_impact_result.
IngestAttachFails ==
    /\ ing.pc = "save"
    /\ ing' = [ing EXCEPT !.pc = "failed"]
    /\ UNCHANGED <<analyses, layers, nextLayerId, metadata, sw>>
    /\ UNCHANGED orchVars
    /\ UNCHANGED metaVars
    /\ UNCHANGED queueVars

\* A supersede that leaves the prior impact layer in the catalog.
PriorKept(current_impact) == {}

\* Lines 418-420: delete the prior impact layer, if there was one.  The
\* Layer row leaves the catalog; the rows that reference it keep the id.
PriorToDelete(current_impact) ==
    IF current_impact /= NULL THEN {current_impact} ELSE {}

IngestDeletePrior ==
    /\ ing.pc = "delete"
    /\ UNCHANGED <<analyses, nextLayerId, metadata, sw>>
    /\ UNCHANGED orchVars
    /\ UNCHANGED metaVars
    /\ UNCHANGED queueVars
    /\ layers' = {l \in layers :
                    l.id \notin PriorToDelete(ing.current_impact)}
    /\ ing' = [ing EXCEPT !.pc = "cleanup", !.success = TRUE]

\* A cleanup that applies the rule of the directly accessed file to archives.
CleanupByBasename(is_zipfile, names, dir, basename) ==
    {f \in dir : FirstComponent(f) = basename}

\* The files the cleanup loop removes: every member of the archive (lines
\* 337-342), or every file of the directory whose first dotted component is
\* the base name (lines 350-358).  A removal that fails is ignored.
CleanupTargets(is_zipfile, names, dir, basename) ==
    IF is_zipfile THEN Range(names)
    ELSE {f \in dir : FirstComponent(f) = basename}

\* Lines 336-369: the cleanup loop, the removal of the fetched file, return.
IngestCleanup ==
    /\ ing.pc = "cleanup"
    /\ UNCHANGED <<analyses, layers, nextLayerId, metadata, sw>>
    /\ UNCHANGED orchVars
    /\ UNCHANGED metaVars
    /\ UNCHANGED queueVars
    /\ ing' = [ing EXCEPT
            !.pc = "done",
            !.dir = (@ \ CleanupTargets(ing.is_zipfile, ing.names, @, ing.basename))
                    \ {ing.impact_path}]

\* The worker is free for the next task.
IngestReturn ==
    /\ ing.pc \in {"done", "failed"}
    /\ ing' = IngIdle
    /\ UNCHANGED <<analyses, layers, nextLayerId, metadata, sw>>
    /\ UNCHANGED orchVars
    /\ UNCHANGED metaVars
    /\ UNCHANGED queueVars


\* ----------------------------------------------------- set_layer_purpose

\* The keyword mappings read_keywords_iso_metadata hands to stage 2.
KeywordSets ==
    { [layer_purpose |-> "impact"],
      [layer_purpose |-> "hazard", hazard |-> "flood"] }

\* keywords.get(key, None)
DictGet(keywords, key) ==
    IF key \in DOMAIN keywords THEN keywords[key] ELSE "None"

\* The primary key of a new Metadata row: one no row has and no running
\* task holds (the number of the layer when that is free).
FreshId(layer_id) ==
    LET used == {m.id : m \in metadata} \cup {fix.row.id, slp.row.id}
    IN  IF layer_id \notin used THEN layer_id
        ELSE CHOOSE i \in 1..(Cardinality(used) + 1) :
                /\ i \notin used
                /\ \A j \in 1..(i - 1) : j \in used

\* The row get_or_create makes for a layer: its fields are empty.
CreateRow(layer_id) ==
    [ id |-> FreshId(layer_id), layer |-> layer_id, layer_purpose |-> "None",
      category |-> "None", keywords_xml |-> <<>> ]

\* The lookup of get_or_create: a row of the layer, or None.
Lookup(layer_id) ==
    LET rows == {m \in metadata : m.layer = layer_id}
    IN  IF rows /= {} THEN CHOOSE m \in rows : TRUE ELSE NoRow

\* A table without the unique layer reference takes any row.
InsertableAlways(layer_id) == TRUE

\* The layer reference of Metadata is unique: the table takes a new row of
\* a layer only when it holds none.
Insertable(layer_id) == \A m \in metadata : m.layer /= layer_id

\* The insert of get_or_create.  When the table refuses the row, the
\* IntegrityError is caught and the row that is there is read.
CreateOrGet(layer_id) ==
    IF Insertable(layer_id) THEN CreateRow(layer_id) ELSE Lookup(layer_id)

\* Metadata.objects.get_or_create(layer=layer): the row of the layer, created
\* with empty fields when there is none.
GetOrCreate(layer_id) ==
    IF Lookup(layer_id) /= NoRow THEN Lookup(layer_id)
    ELSE CreateRow(layer_id)

\* metadata.save(): the row of that primary key is written, inserted when
\* the table has none.
SaveRow(row) == {m \in metadata : m.id /= row.id} \cup {row}

\* Lines 215-222.  Layer.objects.get raises for a missing layer and the task
\* ends there, having written nothing.
SetLayerPurpose(keywords, layer_id) ==
    /\ layer_id \in LayerIdSet
    /\ LET row == GetOrCreate(layer_id)
           layer_purpose == DictGet(keywords, "layer_purpose")
           saved == [row EXCEPT !.layer_purpose = layer_purpose,
                                !.category = DictGet(keywords, layer_purpose)]
       IN  metadata' = SaveRow(saved)
    /\ UNCHANGED <<analyses, layers, nextLayerId, ing, sw>>
    /\ UNCHANGED orchVars
    /\ UNCHANGED metaVars
    /\ UNCHANGED queueVars

\* Lines 215-216: the stage starts, Layer.objects.get and the lookup of
\* get_or_create.
SlpStart(keywords, layer_id) ==
    /\ slp.pc = "idle"
    /\ slp' = [ pc |-> IF layer_id \notin LayerIdSet THEN "failed"
                       ELSE IF Lookup(layer_id) = NoRow THEN "create"
                       ELSE "save",
                layer_id |-> layer_id, keywords |-> keywords,
                row |-> IF layer_id \in LayerIdSet THEN Lookup(layer_id)
                        ELSE NoRow ]
    /\ UNCHANGED <<analyses, layers, nextLayerId, metadata, ing, sw, xml, fix>>
    /\ UNCHANGED orchVars
    /\ UNCHANGED queueVars

\* Line 216: the lookup found no row, get_or_create inserts one.
SlpCreate ==
    /\ slp.pc = "create"
    /\ LET row == CreateOrGet(slp.layer_id)
       IN  /\ metadata' = metadata \cup {row}
           /\ slp' = [slp EXCEPT !.pc = "save", !.row = row]
    /\ UNCHANGED <<analyses, layers, nextLayerId, ing, sw, xml, fix>>
    /\ UNCHANGED orchVars
    /\ UNCHANGED queueVars

\* Lines 218-222: the two fields are set on the instance and it is saved.
SlpSave ==
    /\ slp.pc = "save"
    /\ LET layer_purpose == DictGet(slp.keywords, "layer_purpose")
           saved == [slp.row EXCEPT
                        !.layer_purpose = layer_purpose,
                        !.category = DictGet(slp.keywords, layer_purpose)]
       IN  /\ metadata' = SaveRow(saved)
           /\ slp' = [slp EXCEPT !.pc = "done", !.row = saved]
    /\ UNCHANGED <<analyses, layers, nextLayerId, ing, sw, xml, fix>>
    /\ UNCHANGED orchVars
    /\ UNCHANGED queueVars

\* The worker is free for the next task.
SlpReturn ==
    /\ slp.pc \in {"done", "failed"}
    /\ slp' = SlpIdle
    /\ UNCHANGED <<analyses, layers, nextLayerId, metadata, ing, sw, xml, fix>>
    /\ UNCHANGED orchVars
    /\ UNCHANGED queueVars

\* -------------------------------------------------- inasafe_metadata_fix

\* An element of a metadata document: its tag, its text and the number of
\* its child elements.  White space between elements is left out.
Elem(tag, text, n) == [tag |-> tag, text |-> text, n |-> n]

\* None, for an element.
NoElem == Elem("", "", 0)

\* '{%s}CharacterString' % namespaces['gco']
char_string_tagname == "gco:CharacterString"

\* Element(char_string_tagname)
NewCharString == Elem(char_string_tagname, "", 0)

\* A parsed document: whether it has a gmd:supplementalInformation element,
\* and the children of that element in order.
Doc(sup, children) == [sup |-> sup, children |-> children]

Token(k, v) == [k |-> k, v |-> v]

\* etree.tostring(el): the start tag, the text, the child elements, the end
\* tag.
ElemString(el) ==
    <<Token("open", el.tag), Token("text", el.text)>>
        \o [i \in 1..el.n |-> Token("child", "")]
        \o <<Token("close", el.tag)>>

RECURSIVE ChildrenString(_)
ChildrenString(children) ==
    IF children = <<>> THEN <<>>
    ELSE ElemString(Head(children)) \o ChildrenString(Tail(children))

\* etree.tostring(root): a document without the supplementalInformation
\* element is written as the root alone.
Tostring(doc) ==
    IF doc.sup
    THEN <<Token("open", "gmd:supplementalInformation")>>
            \o ChildrenString(doc.children)
            \o <<Token("close", "gmd:supplementalInformation")>>
    ELSE <<>>

RECURSIVE CountChildTokens(_, _)
CountChildTokens(content, i) ==
    IF i <= Len(content) /\ content[i].k = "child"
    THEN 1 + CountChildTokens(content, i + 1)
    ELSE 0

RECURSIVE ParseChildren(_, _)
\* The elements that start at token i, up to the end tag of the parent.
ParseChildren(content, i) ==
    IF i > Len(content) \/ content[i].k /= "open" THEN <<>>
    ELSE LET n == CountChildTokens(content, i + 2)
         IN  <<Elem(content[i].v, content[i + 1].v, n)>>
                \o ParseChildren(content, i + 3 + n)

\* XML(content) and root.xpath('//gmd:supplementalInformation')
XML(content) ==
    IF content = <<>> THEN Doc(FALSE, <<>>)
    ELSE Doc(TRUE, ParseChildren(content, 2))

\* el.find(tag): the first child of that tag, or None.
Find(children, tag) ==
    LET hits == {i \in 1..Len(children) : children[i].tag = tag}
    IN  IF hits = {} THEN NoElem
        ELSE children[CHOOSE i \in hits : \A j \in hits : i <= j]

\* el.remove(child): the first child equal to it leaves the element.
Remove(children, tag) ==
    LET hits == {i \in 1..Len(children) : children[i].tag = tag}
        k == CHOOSE i \in hits : \A j \in hits : i <= j
    IN  IF hits = {} THEN children
        ELSE [i \in 1..(Len(children) - 1) |->
                IF i < k THEN children[i] ELSE children[i + 1]]

\* el.insert(index, child), with the index of a list insert.
Insert(children, index, child) ==
    LET at == IF index > Len(children) THEN Len(children) ELSE index
    IN  [i \in 1..(Len(children) + 1) |->
            IF i <= at THEN children[i]
            ELSE IF i = at + 1 THEN child
            ELSE children[i - 1]]

\* A merge that keeps the block the cached document already has.
ReplaceKeepingOld(children, tag, el) == Insert(children, 1, el)

\* Lines 95-99 and 102-108: the block of that tag the cached document has
\* is removed and the block of the sidecar is inserted at index 1.
ReplaceBlock(children, tag, el) ==
    Insert(Remove(children, tag), 1, el)

\* Lines 86-108: the children of the cached document's
\* supplementalInformation after the merge.
Reconcile(layer_children, inasafe_el, inasafe_provenance_el) ==
    LET with_content ==
            IF Find(layer_children, char_string_tagname) = NoElem
            THEN Insert(layer_children, 0, NewCharString)
            ELSE layer_children
        with_inasafe == ReplaceBlock(with_content, "inasafe", inasafe_el)
    IN  IF inasafe_provenance_el /= NoElem
        THEN ReplaceBlock(with_inasafe, "inasafe_provenance",
                          inasafe_provenance_el)
        ELSE with_inasafe

\* Line 130: if inasafe_provenance_el.  The truth value of an element is
\* whether it has child elements.
Truth(el) == el /= NoElem /\ el.n > 0

\* Lines 129-133: the keyword block and, when the provenance element is
\* true, a newline and the provenance block.
KeywordsXml(inasafe_el, inasafe_provenance_el) ==
    IF Truth(inasafe_provenance_el)
    THEN ElemString(inasafe_el) \o <<Token("text", "\n")>>
            \o ElemString(inasafe_provenance_el)
    ELSE ElemString(inasafe_el)

\* The metadata documents of a layer: the sidecar file of its upload
\* session, the metadata_xml column of its resource, whether it has a QGIS
\* layer and the file at that layer's path prefix; fixed tells whether the
\* last run of the task on the layer went through.
LayerXml(file, metadata_xml, qgis_layer, qgis_file) ==
    [ file |-> file, metadata_xml |-> metadata_xml, qgis_layer |-> qgis_layer,
      qgis_file |-> qgis_file, fixed |-> FALSE ]

FixIdle ==
    [ pc |-> "idle", layer_id |-> NULL, result |-> "",
      inasafe_el |-> NoElem, inasafe_provenance_el |-> NoElem,
      layer_root_xml |-> Doc(FALSE, <<>>), row |-> NoRow,
      before |-> LayerXml(<<>>, <<>>, FALSE, <<>>) ]

\* The exception of lines 137-139: logged, and the task returns.
FixSwallow(layer_id) ==
    fix' = [fix EXCEPT !.pc = "done", !.layer_id = layer_id,
                       !.result = "error",
                       !.before = IF layer_id \in DOMAIN xml
                                  THEN xml[layer_id] ELSE @]

\* Lines 57-108: the layer and its xml file are read, both documents are
\* parsed and the cached one is merged in memory.
FixStart(layer_id) ==
    /\ fix.pc = "idle"
    /\ UNCHANGED <<analyses, layers, nextLayerId, metadata, ing, sw, xml, slp>>
    /\ UNCHANGED orchVars
    /\ UNCHANGED queueVars
    /\ IF layer_id \notin LayerIdSet \/ layer_id \notin DOMAIN xml
       THEN \* Layer.DoesNotExist, or no xml file in the upload session
            FixSwallow(layer_id)
       ELSE LET root == XML(xml[layer_id].file)
                inasafe_el == Find(root.children, "inasafe")
                inasafe_provenance_el ==
                    Find(root.children, "inasafe_provenance")
                layer_root_xml == XML(xml[layer_id].metadata_xml)
            IN  IF ~root.sup
                THEN \* IndexError of xpath(...)[0]
                     FixSwallow(layer_id)
                ELSE IF inasafe_el = NoElem
                THEN fix' = [fix EXCEPT !.pc = "done", !.layer_id = layer_id,
                                        !.result = "noop",
                                        !.before = xml[layer_id]]
                ELSE IF ~layer_root_xml.sup
                THEN FixSwallow(layer_id)
                ELSE fix' = [fix EXCEPT
                        !.pc = "update",
                        !.layer_id = layer_id,
                        !.inasafe_el = inasafe_el,
                        !.inasafe_provenance_el = inasafe_provenance_el,
                        !.layer_root_xml =
                            Doc(TRUE, Reconcile(layer_root_xml.children,
                                                inasafe_el,
                                                inasafe_provenance_el)),
                        !.before = xml[layer_id]]

\* Lines 111-114: resources.update(metadata_xml=...)
FixUpdateColumn ==
    /\ fix.pc = "update"
    /\ xml' = [xml EXCEPT ![fix.layer_id].metadata_xml =
                                Tostring(fix.layer_root_xml)]
    /\ fix' = [fix EXCEPT !.pc = "sidecar"]
    /\ UNCHANGED <<analyses, layers, nextLayerId, metadata, ing, sw, slp>>
    /\ UNCHANGED orchVars
    /\ UNCHANGED queueVars

\* Lines 117-118: the sidecar file is opened for writing and written.  The
\* open may fail, which leaves the file, and the write may fail, which
\* leaves it truncated; either error is swallowed.
FixWriteSidecar ==
    /\ fix.pc = "sidecar"
    /\ \/ /\ xml' = [xml EXCEPT ![fix.layer_id].file =
                                    Tostring(fix.layer_root_xml)]
          /\ fix' = [fix EXCEPT !.pc = "qgis"]
       \/ /\ xml' = [xml EXCEPT ![fix.layer_id].fixed = FALSE]
          /\ fix' = [fix EXCEPT !.pc = "done", !.result = "error"]
       \/ /\ xml' = [xml EXCEPT ![fix.layer_id].file = <<>>,
                                ![fix.layer_id].fixed = FALSE]
          /\ fix' = [fix EXCEPT !.pc = "done", !.result = "error"]
    /\ UNCHANGED <<analyses, layers, nextLayerId, metadata, ing, sw, slp>>
    /\ UNCHANGED orchVars
    /\ UNCHANGED queueVars

\* Lines 120-124: the file at the QGIS layer's path prefix is written.  A
\* layer without a QGIS layer raises at instance.qgis_layer.
FixWriteQgis ==
    /\ fix.pc = "qgis"
    /\ IF xml[fix.layer_id].qgis_layer
       THEN /\ xml' = [xml EXCEPT ![fix.layer_id].qgis_file =
                                      Tostring(fix.layer_root_xml)]
            /\ fix' = [fix EXCEPT !.pc = "get_or_create"]
       ELSE /\ xml' = [xml EXCEPT ![fix.layer_id].fixed = FALSE]
            /\ fix' = [fix EXCEPT !.pc = "done", !.result = "error"]
    /\ UNCHANGED <<analyses, layers, nextLayerId, metadata, ing, sw, slp>>
    /\ UNCHANGED orchVars
    /\ UNCHANGED queueVars

\* Line 128: the lookup of get_or_create.
FixGetOrCreate ==
    /\ fix.pc = "get_or_create"
    /\ fix' = [fix EXCEPT
                !.pc = IF Lookup(fix.layer_id) = NoRow THEN "create" ELSE "save",
                !.row = Lookup(fix.layer_id)]
    /\ UNCHANGED <<analyses, layers, nextLayerId, metadata, ing, sw, xml, slp>>
    /\ UNCHANGED orchVars
    /\ UNCHANGED queueVars

\* Line 128: the lookup found no row, get_or_create inserts one.
FixCreate ==
    /\ fix.pc = "create"
    /\ LET row == CreateOrGet(fix.layer_id)
       IN  /\ metadata' = metadata \cup {row}
           /\ fix' = [fix EXCEPT !.pc = "save", !.row = row]
    /\ UNCHANGED <<analyses, layers, nextLayerId, ing, sw, xml, slp>>
    /\ UNCHANGED orchVars
    /\ UNCHANGED queueVars

\* Lines 129-135: the keyword cache is set on the instance and saved.
FixSaveMetadata ==
    /\ fix.pc = "save"
    /\ LET saved == [fix.row EXCEPT !.keywords_xml =
                        KeywordsXml(fix.inasafe_el, fix.inasafe_provenance_el)]
       IN  /\ metadata' = SaveRow(saved)
           /\ fix' = [fix EXCEPT !.pc = "done", !.result = "ok", !.row = saved]
    /\ xml' = [xml EXCEPT ![fix.layer_id].fixed = TRUE]
    /\ UNCHANGED <<analyses, layers, nextLayerId, ing, sw, slp>>
    /\ UNCHANGED orchVars
    /\ UNCHANGED queueVars

\* The worker is free for the next task.
FixReturn ==
    /\ fix.pc = "done"
    /\ fix' = FixIdle
    /\ UNCHANGED <<analyses, layers, nextLayerId, metadata, ing, sw, xml, slp>>
    /\ UNCHANGED orchVars
    /\ UNCHANGED queueVars

\* --------------------------------------------------- clean_impact_result

\* A query that lost its filter.
AllAnalyses == DOMAIN analyses

\* Analysis.objects.filter(~Q(keep=True))
NotKept == {a \in DOMAIN analyses : ~analyses[a].keep}

\* Lines 233-234: the query of the first loop is evaluated.
CleanStart ==
    /\ sw.pc = "idle"
    /\ sw' = [sw EXCEPT !.pc = "analyses",
                        !.todo_analyses = NotKept,
                        !.before_analyses = analyses,
                        !.before_metadata = metadata]
    /\ UNCHANGED <<analyses, layers, nextLayerId, metadata, ing>>
    /\ UNCHANGED orchVars
    /\ UNCHANGED metaVars
    /\ UNCHANGED queueVars

\* Lines 234-235: a.delete(), one row of the first loop.
CleanDeleteAnalysis ==
    /\ sw.pc = "analyses"
    /\ \E a \in sw.todo_analyses :
        /\ analyses' = [x \in DOMAIN analyses \ {a} |-> analyses[x]]
        /\ sw' = [sw EXCEPT !.todo_analyses = @ \ {a}]
    /\ UNCHANGED <<layers, nextLayerId, metadata, ing>>
    /\ UNCHANGED orchVars
    /\ UNCHANGED metaVars
    /\ UNCHANGED queueVars

\* Line 237: the first loop is over, the query of the second is evaluated.
CleanQueryMetadata ==
    /\ sw.pc = "analyses"
    /\ sw.todo_analyses = {}
    /\ sw' = [sw EXCEPT !.pc = "metadata",
                        !.todo_metadata =
                            {m \in metadata : m.layer_purpose = "impact"}]
    /\ UNCHANGED <<analyses, layers, nextLayerId, metadata, ing>>
    /\ UNCHANGED orchVars
    /\ UNCHANGED metaVars
    /\ UNCHANGED queueVars

\* Analysis.objects.get(impact_layer=i.layer): "none" for DoesNotExist, "one"
\* for a row, "many" for MultipleObjectsReturned.
GetByImpactLayer(layer_id) ==
    LET rows == {a \in DOMAIN analyses : analyses[a].impact_layer = layer_id}
    IN  IF rows = {} THEN "none"
        ELSE IF Cardinality(rows) = 1 THEN "one" ELSE "many"

\* Lines 237-241: one row of the second loop.  Only DoesNotExist is caught:
\* MultipleObjectsReturned ends the task.
CleanCheckMetadata ==
    /\ sw.pc = "metadata"
    /\ \E i \in sw.todo_metadata :
        LET got == GetByImpactLayer(i.layer)
        IN  /\ metadata' = IF got = "none" THEN metadata \ {i} ELSE metadata
            /\ sw' = [sw EXCEPT !.pc = IF got = "many" THEN "failed" ELSE @,
                                !.todo_metadata = @ \ {i}]
    /\ UNCHANGED <<analyses, layers, nextLayerId, ing>>
    /\ UNCHANGED orchVars
    /\ UNCHANGED metaVars
    /\ UNCHANGED queueVars

\* The second loop is over: the task returns.
CleanFinish ==
    /\ sw.pc = "metadata"
    /\ sw.todo_metadata = {}
    /\ sw' = [sw EXCEPT !.pc = "done"]
    /\ UNCHANGED <<analyses, layers, nextLayerId, metadata, ing>>
    /\ UNCHANGED orchVars
    /\ UNCHANGED metaVars
    /\ UNCHANGED queueVars

\* The worker is free for the next task.
CleanReturn ==
    /\ sw.pc \in {"done", "failed"}
    /\ sw' = SwIdle
    /\ UNCHANGED <<analyses, layers, nextLayerId, metadata, ing>>
    /\ UNCHANGED orchVars
    /\ UNCHANGED metaVars
    /\ UNCHANGED queueVars

\* ------------------------------------------------------- prepare_analysis

\* The comma-separated pieces of the extent strings the model draws from:
\* number literals, a string literal and a bare name.
ExtentTokens == {"10.0", "20.0", "30.0", "40.0", "'x'", "abc"}

\* An extent string, as the sequence of its comma-separated pieces; the
\* empty sequence is the empty string.
ExtentStrings == BoundedSeq(ExtentTokens, MaxExtentLen)

\* ast.literal_eval of one element of the list: a number literal gives a
\* float, a string literal a str, anything else is a malformed node.
LiteralOf(token) ==
    CASE token = "10.0" -> [ok |-> TRUE, type |-> "float", num |-> 10]
      [] token = "20.0" -> [ok |-> TRUE, type |-> "float", num |-> 20]
      [] token = "30.0" -> [ok |-> TRUE, type |-> "float", num |-> 30]
      [] token = "40.0" -> [ok |-> TRUE, type |-> "float", num |-> 40]
      [] token = "'x'" -> [ok |-> TRUE, type |-> "str", num |-> 0]
      [] OTHER -> [ok |-> FALSE, type |-> "", num |-> 0]

\* ast.literal_eval('[' + extent + ']'): the list of the elements' values,
\* or ValueError when an element is no literal.
LiteralEvalList(extent) ==
    IF \E i \in 1..Len(extent) : ~LiteralOf(extent[i]).ok
    THEN [ok |-> FALSE, value |-> <<>>]
    ELSE [ok |-> TRUE,
          value |-> [i \in 1..Len(extent) |->
                        [type |-> LiteralOf(extent[i]).type,
                         num |-> LiteralOf(extent[i]).num]]]

\* A chain built with its stages the other way round.
TasksChainReversed(analysis_id, extent) ==
    << [ task |-> "process_impact_result",
         queue |-> "geosafe",
         args |-> [analysis_id |-> analysis_id] ],
       [ task |-> "run_analysis",
         queue |-> "inasafe-headless-analysis",
         time_limit |-> "INASAFE_ANALYSIS_RUN_TIME_LIMIT",
         args |-> [ hazard |-> <<"hazard_layer", analysis_id>>,
                    exposure |-> <<"exposure_layer", analysis_id>>,
                    function |-> <<"impact_function_id", analysis_id>>,
                    generate_report |-> TRUE,
                    requested_extent |-> extent,
                    archive_impact |-> FALSE ] ] >>

\* Lines 268-282: the two signatures of the chain, in order.
TasksChain(analysis_id, extent) ==
    << [ task |-> "run_analysis",
         queue |-> "inasafe-headless-analysis",
         time_limit |-> "INASAFE_ANALYSIS_RUN_TIME_LIMIT",
         args |-> [ hazard |-> <<"hazard_layer", analysis_id>>,
                    exposure |-> <<"exposure_layer", analysis_id>>,
                    function |-> <<"impact_function_id", analysis_id>>,
                    generate_report |-> TRUE,
                    requested_extent |-> extent,
                    archive_impact |-> FALSE ] ],
       [ task |-> "process_impact_result",
         queue |-> "geosafe",
         args |-> [analysis_id |-> analysis_id] ] >>

\* chain.delay(): every stage gets its own tracking handle; the result is
\* the handle of the last stage, whose parent is the stage before it.
Delay(tasks_chain, first_handle) ==
    LET stages == [i \in 1..Len(tasks_chain) |->
                     [sig |-> tasks_chain[i], id |-> first_handle + i - 1]]
    IN  [ stages |-> stages,
          result |-> [id |-> stages[Len(stages)].id,
                      parent |-> stages[Len(stages) - 1].id] ]

\* The handle of the chain's own result, that of its last stage.
ResultHandle(result) == result.id

\* Line 287: return result.parent
ReturnedHandle(result) == result.parent

PrepNone ==
    [ status |-> "none", handle |-> NULL, analysis_id |-> NULL,
      user_extent |-> <<>>, submitted |-> <<>> ]

\* Lines 253-287.  user_extent is the extent string of the Analysis row.
PrepareAnalysis(analysis_id, user_extent) ==
    /\ UNCHANGED coreVars
    /\ UNCHANGED metaVars
    /\ UNCHANGED queueVars
    /\ LET parsed == LiteralEvalList(user_extent)
           extent == IF user_extent /= <<>> THEN parsed.value ELSE <<>>
           sent == Delay(TasksChain(analysis_id, extent), nextHandle)
       IN  IF analysis_id \notin DOMAIN analyses
              \/ (user_extent /= <<>> /\ ~parsed.ok)
           THEN \* Analysis.DoesNotExist, or the error of literal_eval
                /\ prep' = [PrepNone EXCEPT !.status = "raised",
                                            !.analysis_id = analysis_id,
                                            !.user_extent = user_extent]
                /\ UNCHANGED <<chains, nextHandle>>
           ELSE /\ chains' = Append(chains, sent.stages)
                /\ nextHandle' = nextHandle + Len(sent.stages)
                /\ prep' = [ status |-> "returned",
                             handle |-> ReturnedHandle(sent.result),
                             analysis_id |-> analysis_id,
                             user_extent |-> user_extent,
                             submitted |-> <<sent.stages>> ]

\* The caller has the outcome of its call.
PrepareReturn ==
    /\ prep.status /= "none"
    /\ prep' = PrepNone
    /\ UNCHANGED <<chains, nextHandle>>
    /\ UNCHANGED coreVars
    /\ UNCHANGED metaVars
    /\ UNCHANGED queueVars

\* A worker of the compute queue takes the chain at the head of the queue.
ChainTaken ==
    /\ chains /= <<>>
    /\ chains' = Tail(chains)
    /\ UNCHANGED <<nextHandle, prep>>
    /\ UNCHANGED coreVars
    /\ UNCHANGED metaVars
    /\ UNCHANGED queueVars

\* ------------------------------------------------- create_metadata_object

\* self.retry(exc=e, countdown=5)
RetryCountdown == 5

\* The retries the queue allows a task that sets no max_retries.
MaxRetries == 3

CmoIdle ==
    [ pc |-> "idle", layer_id |-> NULL, direct_access |-> FALSE,
      retries |-> 0, countdown |-> 0, waited |-> 0,
      found |-> FALSE, premature |-> FALSE, submitted |-> 0 ]

\* Lines 161-175: the address the worker reads the layer's metadata from.
LayerUrl(using_direct_access, layer_id) ==
    IF using_direct_access
    THEN <<"file://", "layer_path", layer_id, ".xml">>
    ELSE <<"GEONODE_BASE_URL", "geosafe:layer-metadata", layer_id>>

\* Lines 179-187: the two signatures of the keyword chain, in order.
KeywordsChain(layer_url, layer_id) ==
    << [ task |-> "read_keywords_iso_metadata",
         queue |-> "read_keywords_iso_metadata.queue",
         args |-> [ layer_url |-> layer_url,
                    keywords |-> <<"layer_purpose", "hazard", "exposure">> ] ],
       [ task |-> "set_layer_purpose",
         queue |-> "geosafe",
         args |-> [layer_id |-> layer_id] ] >>

\* Line 192: self.retry(exc=e, countdown=5).  The task is sent again with
\* the countdown; with the retries used up, exc is raised and the task
\* fails with it.
Retry(task) ==
    IF task.retries < MaxRetries
    THEN [task EXCEPT !.pc = "retry", !.retries = @ + 1,
                      !.countdown = RetryCountdown, !.waited = 0]
    ELSE [task EXCEPT !.pc = "failed"]

\* create_metadata_object.delay(layer_id), on a layer's creation or update.
CmoDelay(layer_id, using_direct_access) ==
    /\ cmo.pc = "idle"
    /\ cmo' = [CmoIdle EXCEPT !.pc = "queued", !.layer_id = layer_id,
                              !.direct_access = using_direct_access]
    /\ UNCHANGED <<chains, nextHandle, prep, run>>
    /\ UNCHANGED coreVars
    /\ UNCHANGED metaVars

\* Lines 158-197, one attempt.  A layer that is not fully populated yet
\* raises AttributeError on the way to its address, which is passed over.
CmoAttempt ==
    /\ cmo.pc = "queued"
    /\ UNCHANGED <<prep, run>>
    /\ UNCHANGED coreVars
    /\ UNCHANGED metaVars
    /\ IF cmo.layer_id \notin LayerIdSet
       THEN \* Layer.DoesNotExist
            /\ cmo' = Retry(cmo)
            /\ UNCHANGED <<chains, nextHandle>>
       ELSE \/ \* AttributeError
               /\ cmo' = [cmo EXCEPT !.pc = "returned", !.found = TRUE,
                                     !.premature = TRUE]
               /\ UNCHANGED <<chains, nextHandle>>
            \/ LET layer_url == LayerUrl(cmo.direct_access, cmo.layer_id)
                   sent == Delay(KeywordsChain(layer_url, cmo.layer_id),
                                 nextHandle)
               IN  /\ chains' = Append(chains, sent.stages)
                   /\ nextHandle' = nextHandle + Len(sent.stages)
                   /\ cmo' = [cmo EXCEPT !.pc = "returned", !.found = TRUE,
                                         !.submitted = @ + 1]

\* One unit of the countdown of a retry goes by.
CmoTick ==
    /\ cmo.pc = "retry"
    /\ cmo.waited < cmo.countdown
    /\ cmo' = [cmo EXCEPT !.waited = @ + 1]
    /\ UNCHANGED <<chains, nextHandle, prep, run>>
    /\ UNCHANGED coreVars
    /\ UNCHANGED metaVars

\* The countdown is over: the queue hands the task to a worker again.
CmoRedeliver ==
    /\ cmo.pc = "retry"
    /\ cmo.waited = cmo.countdown
    /\ cmo' = [cmo EXCEPT !.pc = "queued"]
    /\ UNCHANGED <<chains, nextHandle, prep, run>>
    /\ UNCHANGED coreVars
    /\ UNCHANGED metaVars

\* The task is over, with True or with the error it raised.
CmoReturn ==
    /\ cmo.pc \in {"returned", "failed"}
    /\ cmo' = CmoIdle
    /\ UNCHANGED <<chains, nextHandle, prep, run>>
    /\ UNCHANGED coreVars
    /\ UNCHANGED metaVars

\* The transaction that creates a layer commits: file_upload of a file of
\* that name, for which the catalog has no layer yet.
LayerCreated(name) ==
    /\ \A l \in layers : l.name /= name
    /\ nextLayerId <= MaxLayers
    /\ layers' = layers \cup {UploadTarget(File(name, ".shp"))}
    /\ nextLayerId' = nextLayerId + 1
    /\ UNCHANGED <<analyses, metadata, ing, sw>>
    /\ UNCHANGED orchVars
    /\ UNCHANGED metaVars
    /\ UNCHANGED queueVars

\* ------------------------------------------------------ the analysis chain

\* No return value of a stage before.
NoArtifact == Artifact(NoFile, <<>>, {})

RunIdle ==
    [ pc |-> "idle", stages |-> <<>>, index |-> 0, ret |-> NoArtifact,
      compute |-> "PENDING", started |-> 0 ]

\* The stage of the chain the queue is at.
Stage == run.stages[run.index]

\* The chain goes on with the stage after the one that returned, which gets
\* the return value as its leading parameter; after the last it is complete.
Advance(r, ret) ==
    IF r.index < Len(r.stages)
    THEN [r EXCEPT !.pc = "ready", !.index = @ + 1, !.ret = ret]
    ELSE [r EXCEPT !.pc = "complete", !.ret = ret]

\* The queue takes up the chain at the head: its first stage is ready.
ChainStart ==
    /\ run.pc = "idle"
    /\ chains /= <<>>
    /\ run' = [RunIdle EXCEPT !.pc = "ready", !.stages = Head(chains),
                              !.index = 1]
    /\ chains' = Tail(chains)
    /\ UNCHANGED <<nextHandle, prep, cmo>>
    /\ UNCHANGED coreVars
    /\ UNCHANGED metaVars

\* A worker of the compute queue starts run_analysis.
ComputeStart ==
    /\ run.pc = "ready"
    /\ Stage.sig.task = "run_analysis"
    /\ run' = [run EXCEPT !.pc = "compute", !.compute = "STARTED",
                          !.started = @ + 1]
    /\ UNCHANGED <<chains, nextHandle, prep, cmo>>
    /\ UNCHANGED coreVars
    /\ UNCHANGED metaVars

\* run_analysis returns the address of the impact artifact.
ComputeReturn(impact) ==
    /\ run.pc = "compute"
    /\ run' = Advance([run EXCEPT !.compute = "SUCCESS"], impact)
    /\ UNCHANGED <<chains, nextHandle, prep, cmo>>
    /\ UNCHANGED coreVars
    /\ UNCHANGED metaVars

\* run_analysis raises, or runs into its time limit: the chain ends there.
ComputeFail(state) ==
    /\ run.pc = "compute"
    /\ state = "TIME_LIMIT" => "time_limit" \in DOMAIN Stage.sig
    /\ run' = [run EXCEPT !.pc = "dead", !.compute = state]
    /\ UNCHANGED <<chains, nextHandle, prep, cmo>>
    /\ UNCHANGED coreVars
    /\ UNCHANGED metaVars

\* A worker of the geosafe queue starts process_impact_result with the
\* return value of the stage before and the arguments of the signature.
IngestStageStart ==
    /\ run.pc = "ready"
    /\ Stage.sig.task = "process_impact_result"
    /\ IngestStart(Stage.sig.args.analysis_id, run.ret, Stage.id)

\* process_impact_result is over: the chain goes on, or ends on its error.
IngestStageReturn ==
    /\ run.pc = "ready"
    /\ Stage.sig.task = "process_impact_result"
    /\ ing.pc \in {"done", "failed"}
    /\ ing' = IngIdle
    /\ run' = IF ing.pc = "done" THEN Advance(run, NoArtifact)
              ELSE [run EXCEPT !.pc = "dead"]
    /\ UNCHANGED <<analyses, layers, nextLayerId, metadata, sw>>
    /\ UNCHANGED <<chains, nextHandle, prep, cmo>>
    /\ UNCHANGED metaVars

\* The queue is done with the chain.
ChainEnd ==
    /\ run.pc \in {"complete", "dead"}
    /\ run' = RunIdle
    /\ UNCHANGED <<chains, nextHandle, prep, cmo>>
    /\ UNCHANGED coreVars
    /\ UNCHANGED metaVars

\* ---------------------------------------------------------- specifications

\* The tracking handles the queue gives to ingestion tasks (self.request.id).
RequestIds == {1, 2}

\* The artifacts the compute stage hands to the ingestion stage in Spec.
SampleArtifacts ==
    { Artifact(File("impact", ".zip"),
               <<File("result", ".shp"), File("result", ".pdf")>>, {}),
      Artifact(File("impact", ".zip"), <<File("result", ".dbf")>>, {}),
      Artifact(File("other", ".tif"), <<>>, {}) }

Init ==
    /\ analyses = [a \in AnalysisIds |-> NewAnalysis(TRUE)]
    /\ layers = {}
    /\ nextLayerId = 1
    /\ metadata = {}
    /\ ing = IngIdle
    /\ sw = SwIdle
    /\ chains = <<>>
    /\ nextHandle = 1
    /\ prep = PrepNone
    /\ xml = <<>>
    /\ fix = FixIdle
    /\ slp = SlpIdle
    /\ cmo = CmoIdle
    /\ run = RunIdle

IngestSteps ==
    \/ IngestUpload
    \/ IngestSave
    \/ IngestDeletePrior
    \/ IngestCleanup
    \/ IngestReturn

\* Spec: ingestions of the Analyses, one after the other.
Next ==
    \/ \E a \in AnalysisIds, impact \in SampleArtifacts, t \in RequestIds :
            IngestStart(a, impact, t)
    \/ IngestSteps
    \/ IngestAttachFails

Spec == Init /\ [][Next]_vars

\* SpecArchive: ingestions of one Analysis, over every zip archive of up to
\* MaxMembers members and the directly accessed files.
NextArchive ==
    \/ \E impact \in ZipArtifacts(MaxMembers) \cup BareArtifacts :
            IngestStart(1, impact, 1)
    \/ IngestSteps

SpecArchive == Init /\ [][NextArchive]_vars

\* SpecSweep: ingestions, keyword stages and sweeps, one task at a time.
SweepArtifacts ==
    { Artifact(File("result", ".shp"), <<>>, {}),
      Artifact(File("other", ".tif"), <<>>, {}) }

SweepSteps ==
    \/ CleanDeleteAnalysis
    \/ CleanQueryMetadata
    \/ CleanCheckMetadata
    \/ CleanFinish
    \/ CleanReturn

NextSweep ==
    \/ /\ sw.pc = "idle"
       /\ \E a \in AnalysisIds, impact \in SweepArtifacts :
            IngestStart(a, impact, 1)
    \/ IngestSteps
    \/ /\ ing.pc = "idle"
       /\ sw.pc = "idle"
       /\ \E k \in KeywordSets, l \in LayerIds : SetLayerPurpose(k, l)
    \/ /\ ing.pc = "idle"
       /\ CleanStart
    \/ SweepSteps

InitSweep ==
    /\ analyses \in [AnalysisIds -> {NewAnalysis(k) : k \in BOOLEAN}]
    /\ layers = {}
    /\ nextLayerId = 1
    /\ metadata = {}
    /\ ing = IngIdle
    /\ sw = SwIdle
    /\ chains = <<>>
    /\ nextHandle = 1
    /\ prep = PrepNone
    /\ xml = <<>>
    /\ fix = FixIdle
    /\ slp = SlpIdle
    /\ cmo = CmoIdle
    /\ run = RunIdle

SpecSweep == InitSweep /\ [][NextSweep]_vars

\* SpecPrepare: prepare_analysis calls over every extent string of up to
\* MaxExtentLen pieces, one chain waiting in the queue at a time.
NextPrepare ==
    \/ /\ prep.status = "none"
       /\ chains = <<>>
       /\ nextHandle + 1 <= MaxHandles
       /\ \E a \in AnalysisIds, e \in ExtentStrings : PrepareAnalysis(a, e)
    \/ PrepareReturn
    \/ ChainTaken

SpecPrepare == Init /\ [][NextPrepare]_vars

\* SpecFix: runs of inasafe_metadata_fix on a layer, over the documents of
\* the layer: every order of the three blocks in the sidecar file and in
\* the cached column.
SidecarElems ==
    { NewCharString, Elem("inasafe", "new", 1),
      Elem("inasafe_provenance", "new", 1),
      Elem("inasafe_provenance", "new", 0) }

CachedElems ==
    { NewCharString, Elem("inasafe", "old", 1),
      Elem("inasafe_provenance", "old", 1) }

\* The child lists over a set of elements that hold a tag once at most.
ChildLists(E) ==
    {c \in BoundedSeq(E, Cardinality({e.tag : e \in E})) :
        \A i, j \in 1..Len(c) : i /= j => c[i].tag /= c[j].tag}

Documents(E) == {Doc(FALSE, <<>>)} \cup {Doc(TRUE, c) : c \in ChildLists(E)}

InitFix ==
    /\ analyses = [a \in AnalysisIds |-> NewAnalysis(TRUE)]
    /\ layers = {[id |-> 1, name |-> "result"]}
    /\ nextLayerId = 2
    /\ metadata = {}
    /\ ing = IngIdle
    /\ sw = SwIdle
    /\ chains = <<>>
    /\ nextHandle = 1
    /\ prep = PrepNone
    /\ \E sidecar \in Documents(SidecarElems),
          cached \in Documents(CachedElems), qgis_layer \in BOOLEAN :
            xml = [l \in {1} |->
                    LayerXml(Tostring(sidecar), Tostring(cached), qgis_layer,
                             IF qgis_layer THEN Tostring(sidecar) ELSE <<>>)]
    /\ fix = FixIdle
    /\ slp = SlpIdle
    /\ cmo = CmoIdle
    /\ run = RunIdle

FixSteps ==
    \/ FixUpdateColumn
    \/ FixWriteSidecar
    \/ FixWriteQgis
    \/ FixGetOrCreate
    \/ FixCreate
    \/ FixSaveMetadata
    \/ FixReturn

NextFix ==
    \/ \E l \in LayerIds : FixStart(l)
    \/ FixSteps

SpecFix == InitFix /\ [][NextFix]_vars

\* SpecMeta: set_layer_purpose and inasafe_metadata_fix tasks on the layers
\* of the catalog, their steps interleaved.
InitMeta ==
    /\ analyses = [a \in AnalysisIds |-> NewAnalysis(TRUE)]
    /\ layers = {[id |-> 1, name |-> "result"]}
    /\ nextLayerId = 2
    /\ metadata = {}
    /\ ing = IngIdle
    /\ sw = SwIdle
    /\ chains = <<>>
    /\ nextHandle = 1
    /\ prep = PrepNone
    /\ xml = [l \in {1} |->
                LayerXml(Tostring(Doc(TRUE, <<Elem("inasafe", "new", 1),
                                    Elem("inasafe_provenance", "new", 1)>>)),
                         Tostring(Doc(TRUE, <<NewCharString>>)), TRUE, <<>>)]
    /\ fix = FixIdle
    /\ slp = SlpIdle
    /\ cmo = CmoIdle
    /\ run = RunIdle

NextMeta ==
    \/ \E k \in KeywordSets, l \in LayerIds : SlpStart(k, l)
    \/ SlpCreate
    \/ SlpSave
    \/ SlpReturn
    \/ \E l \in LayerIds : FixStart(l)
    \/ FixSteps
    \/ \E name \in {"other", "third"} : LayerCreated(name)

SpecMeta == InitMeta /\ [][NextMeta]_vars

\* SpecKeyword: create_metadata_object tasks for layers that are in the
\* catalog, that get there while the task retries, and that never do.
NextKeyword ==
    \/ /\ nextHandle + 1 <= MaxHandles
       /\ \E l \in LayerIds, using_direct_access \in BOOLEAN :
            CmoDelay(l, using_direct_access)
    \/ CmoAttempt
    \/ CmoTick
    \/ CmoRedeliver
    \/ CmoReturn
    \/ \E name \in {"result", "other", "third"} : LayerCreated(name)
    \/ ChainTaken

SpecKeyword == Init /\ [][NextKeyword]_vars

\* SpecChain: prepare_analysis calls and the queue's execution of their
\* chains, the compute stage returning an artifact, raising, or running
\* into its time limit.
ChainExtents ==
    { <<>>, <<"10.0", "20.0", "30.0", "40.0">> }

NextChain ==
    \/ /\ prep.status = "none"
       /\ chains = <<>>
       /\ nextHandle + 1 <= MaxHandles
       /\ \E a \in AnalysisIds, e \in ChainExtents : PrepareAnalysis(a, e)
    \/ PrepareReturn
    \/ ChainStart
    \/ ComputeStart
    \/ \E impact \in SampleArtifacts : ComputeReturn(impact)
    \/ \E state \in {"FAILURE", "TIME_LIMIT"} : ComputeFail(state)
    \/ IngestStageStart
    \/ IngestUpload
    \/ IngestSave
    \/ IngestDeletePrior
    \/ IngestCleanup
    \/ IngestStageReturn
    \/ ChainEnd

SpecChain == Init /\ [][NextChain]_vars

\* SpecConcurrent: ingestions of one Analysis, keyword stages that find the
\* purpose "impact", and sweeps, their steps interleaved.
NextConcurrent ==
    \/ \E impact \in SweepArtifacts : IngestStart(1, impact, 1)
    \/ IngestSteps
    \/ \E l \in LayerIds : SetLayerPurpose([layer_purpose |-> "impact"], l)
    \/ CleanStart
    \/ SweepSteps

SpecConcurrent == InitSweep /\ [][NextConcurrent]_vars

\* ------------------------------------------------------------------ claims

IsSpatialName(f) == f.ext \in {".shp", ".tif"}

\* C1: when process_impact_result returns true, the persisted Analysis has an
\* impact layer, task_state SUCCESS and an end time, and the impact layer it
\* referenced before the call, if any, is no longer in the catalog.
C1_SuccessfulIngestion ==
    (ing.pc = "done" /\ ing.success) =>
        /\ ing.analysis_id \in DOMAIN analyses
        /\ analyses[ing.analysis_id].impact_layer /= NULL
        /\ analyses[ing.analysis_id].task_state = "SUCCESS"
        /\ analyses[ing.analysis_id].end_time /= ""
        /\ (ing.before.impact_layer /= NULL
                => ing.before.impact_layer \notin LayerIdSet)

C1_Witness ==
    /\ ing.pc = "done"
    /\ ing.success
    /\ ing.before.impact_layer /= NULL
    /\ ing.before.impact_layer /= ing.saved_layer

\* C2: in every reachable state of a sequence of ingestions of one Analysis,
\* the Analysis, once it had an impact layer, references a layer, and that
\* layer is in the catalog.
C2_ImpactLayerIsLive ==
    /\ \A a \in DOMAIN analyses :
            analyses[a].impact_layer /= NULL
                => analyses[a].impact_layer \in LayerIdSet
    /\ (ing.pc \notin {"idle", "failed"} /\ ing.before.impact_layer /= NULL)
            => analyses[ing.analysis_id].impact_layer /= NULL

\* C3: within one ingestion, a step that deletes a layer from the catalog
\* leaves no persisted reference from the ingested Analysis to that layer:
\* the prior layer is deleted only once the Analysis references another.
C3_NoReferenceToDeletedPrior ==
    [][\A l \in LayerIdSet :
            (ing.pc = "delete" /\ l \notin LayerIdSet')
                => analyses'[ing.analysis_id].impact_layer /= l]_vars

\* C4: prepare_analysis submits a chain of two stages, run_analysis then
\* process_impact_result, and returns the handle of the first stage, which
\* is not the handle of the second stage (the chain's own result).
C4_ReturnsComputeHandle ==
    prep.status = "returned" =>
        /\ Len(prep.submitted) = 1
        /\ LET stages == prep.submitted[1]
           IN  /\ Len(stages) = 2
               /\ stages[1].sig.task = "run_analysis"
               /\ stages[2].sig.task = "process_impact_result"
               /\ stages[2].sig.args.analysis_id = prep.analysis_id
               /\ prep.handle = stages[1].id
               /\ prep.handle /= stages[2].id

C4_Witness ==
    /\ prep.status = "returned"
    /\ chains /= <<>>
    /\ nextHandle > 3

NumberOf(token) ==
    CASE token = "10.0" -> 10 [] token = "20.0" -> 20
      [] token = "30.0" -> 30 [] token = "40.0" -> 40 [] OTHER -> 0

IsFourNumbers(e) ==
    /\ Len(e) = 4
    /\ \A i \in 1..4 : e[i] \in {"10.0", "20.0", "30.0", "40.0"}

\* C5: for an extent string that is present and is not four numbers,
\* prepare_analysis raises and submits no chain; for four comma-separated
\* numbers it submits the chain with those four bounds in order.
C5_MalformedExtentFails ==
    (prep.status /= "none" /\ prep.user_extent /= <<>>) =>
        IF IsFourNumbers(prep.user_extent)
        THEN /\ prep.status = "returned"
             /\ Len(prep.submitted) = 1
             /\ LET extent == prep.submitted[1][1].sig.args.requested_extent
                IN  /\ Len(extent) = 4
                    /\ \A i \in 1..4 :
                          /\ extent[i].type = "float"
                          /\ extent[i].num = NumberOf(prep.user_extent[i])
        ELSE /\ prep.status = "raised"
             /\ prep.submitted = <<>>

\* C6: for a zip archive none of whose members ends in .shp or .tif, the
\* ingestion uploads nothing and returns false.
C6_NoSpatialMember ==
    (/\ ing.pc /= "idle"
     /\ ing.is_zipfile
     /\ \A i \in 1..Len(ing.names) : ~IsSpatialName(ing.names[i])) =>
        /\ ing.pc \in {"cleanup", "done"}
        /\ ing.uploads = 0
        /\ ~ing.success

C6_Witness ==
    /\ ing.pc = "done"
    /\ ing.is_zipfile
    /\ Len(ing.names) = MaxMembers
    /\ \A i \in 1..Len(ing.names) : ~IsSpatialName(ing.names[i])

\* C7: for a zip archive with a spatial member, the member handed to
\* process_impact_layer is the first spatial member in the stored order, it
\* is the file the uploaded layer is named after, and there is at most one
\* upload per ingestion.
C7_FirstSpatialMember ==
    (/\ ing.pc \notin {"idle", "failed"}
     /\ ing.is_zipfile
     /\ \E i \in 1..Len(ing.names) : IsSpatialName(ing.names[i])) =>
        /\ \E i \in 1..Len(ing.names) :
                /\ IsSpatialName(ing.names[i])
                /\ \A j \in 1..(i - 1) : ~IsSpatialName(ing.names[j])
                /\ ing.name = ing.names[i]
        /\ ing.uploads <= 1
        /\ ing.pc = "save" =>
                \E l \in layers : l.id = ing.saved_layer /\ l.name = ing.name.stem

C7_Witness ==
    /\ ing.pc = "done"
    /\ ing.success
    /\ ing.is_zipfile
    /\ \E i, j \in 1..Len(ing.names) :
            /\ i < j
            /\ IsSpatialName(ing.names[i])
            /\ IsSpatialName(ing.names[j])
            /\ ing.names[i] /= ing.names[j]
            /\ ing.name = ing.names[i]

ReportsAmongMembers ==
    /\ File(ing.name.stem, ".pdf") \in Range(ing.names)
    /\ File(ing.name.stem \o "_table", ".pdf") \in Range(ing.names)

ReportsAttached ==
    /\ analyses[ing.analysis_id].report_map = File(ing.name.stem, ".pdf")
    /\ analyses[ing.analysis_id].report_table =
            File(ing.name.stem \o "_table", ".pdf")

C9_Retention ==
    sw.pc = "done" =>
        /\ \A a \in DOMAIN analyses : analyses[a].keep
        /\ \A a \in DOMAIN sw.before_analyses :
                sw.before_analyses[a].keep =>
                    /\ a \in DOMAIN analyses
                    /\ analyses[a] = sw.before_analyses[a]

C9_Witness ==
    /\ sw.pc = "done"
    /\ \E a, b \in DOMAIN sw.before_analyses :
            /\ ~sw.before_analyses[a].keep
            /\ sw.before_analyses[a].impact_layer /= NULL
            /\ sw.before_analyses[b].keep
            /\ sw.before_analyses[b].impact_layer /= NULL

\* C10: clean_impact_result completes on every catalog state, and then a
\* Metadata row of purpose "impact" exists exactly when it existed before
\* and its layer is the impact layer of a surviving Analysis; the rows of
\* another purpose are as before.
C10_OrphanMetadataSwept ==
    /\ sw.pc /= "failed"
    /\ sw.pc = "done" =>
            \A m \in metadata \cup sw.before_metadata :
                IF m.layer_purpose = "impact"
                THEN m \in metadata <=>
                        /\ m \in sw.before_metadata
                        /\ \E a \in DOMAIN analyses :
                                analyses[a].impact_layer = m.layer
                ELSE m \in metadata <=> m \in sw.before_metadata

\* The children of the supplementalInformation element of a file or column.
ChildrenOf(content) == XML(content).children

CountTag(children, tag) ==
    Cardinality({i \in 1..Len(children) : children[i].tag = tag})

HasKeywordBlock(content) == Find(ChildrenOf(content), "inasafe") /= NoElem

HasProvenanceBlock(content) ==
    Find(ChildrenOf(content), "inasafe_provenance") /= NoElem

\* C11: a run of inasafe_metadata_fix that goes through on a layer whose
\* previous run went through leaves the sidecar file as the previous run
\* left it.
C11_SecondRunSameSidecar ==
    (fix.pc = "done" /\ fix.result = "ok" /\ fix.before.fixed) =>
        xml[fix.layer_id].file = fix.before.file

\* C12: when inasafe_metadata_fix returns for a layer whose sidecar file
\* had a keyword block, the metadata_xml column, the sidecar file and the
\* file at the QGIS path prefix hold the same document.
C12_ThreeCopiesIdentical ==
    (fix.pc = "done" /\ HasKeywordBlock(fix.before.file)) =>
        /\ xml[fix.layer_id].metadata_xml = xml[fix.layer_id].file
        /\ xml[fix.layer_id].qgis_file = xml[fix.layer_id].file

\* The states of a run in which the merged document is in the column.
ColumnWritten ==
    \/ fix.pc \in {"sidecar", "qgis", "get_or_create", "create", "save"}
    \/ fix.pc = "done" /\ fix.result = "ok"

\* The text-content element was absent from the cached document, or its
\* first child.
ContentAbsentOrFirst(content) ==
    LET c == ChildrenOf(content)
    IN  \A i \in 1..Len(c) : c[i].tag = char_string_tagname => i = 1

RowsOf(layer_id) == {m \in metadata : m.layer = layer_id}

\* C17: after a run that went through, the keyword cache of the layer's
\* Metadata row is the keyword block of the sidecar, followed by a newline
\* and the provenance block when the sidecar has a provenance element, with
\* or without child elements, and the keyword block alone when it has none.
C17_KeywordCache ==
    (fix.pc = "done" /\ fix.result = "ok") =>
        LET sidecar == ChildrenOf(fix.before.file)
            keyword_block == ElemString(Find(sidecar, "inasafe"))
            provenance_el == Find(sidecar, "inasafe_provenance")
        IN  \A m \in RowsOf(fix.layer_id) :
                m.keywords_xml =
                    IF provenance_el /= NoElem
                    THEN keyword_block \o <<Token("text", "\n")>>
                            \o ElemString(provenance_el)
                    ELSE keyword_block

\* C18: whatever the interleaving of set_layer_purpose and
\* inasafe_metadata_fix tasks, a layer has one Metadata row at most, and a
\* task saves the row of its layer that is in the table.
C18_OneRowPerLayer ==
    /\ \A m1, m2 \in metadata : m1.layer = m2.layer => m1 = m2
    /\ slp.pc = "save" =>
            \E m \in metadata : m.id = slp.row.id /\ m.layer = slp.layer_id
    /\ fix.pc = "save" =>
            \E m \in metadata : m.id = fix.row.id /\ m.layer = fix.layer_id

C18_Witness ==
    /\ slp.pc = "save"
    /\ fix.pc = "save"
    /\ slp.layer_id = fix.layer_id
    /\ slp.row.layer_purpose = "None"
    /\ fix.row.keywords_xml = <<>>

\* C13: a create_metadata_object task that finds no layer is sent again
\* with a countdown of 5, three times at most, and does not end in a
\* failure, whether the layer gets into the catalog in time or never; the
\* attempt that finds the layer submits the keyword chain, once.
C13_MissingLayerNeverSurfaced ==
    /\ cmo.pc = "retry" => cmo.countdown = 5
    /\ (cmo.pc = "queued" /\ cmo.retries > 0) => cmo.waited = 5
    /\ cmo.retries <= 3
    /\ cmo.pc /= "failed"
    /\ cmo.submitted <= 1
    /\ (cmo.pc = "returned" /\ cmo.found /\ ~cmo.premature) => cmo.submitted = 1

\* C14: in the analysis chain process_impact_result runs for an Analysis
\* only once run_analysis has returned, with the return value as its first
\* argument; when run_analysis raises or runs into its time limit,
\* process_impact_result does not run for that chain and run_analysis is
\* not started again.
C14_IngestionAfterCompute ==
    /\ ing.pc /= "idle" =>
            /\ run.pc = "ready"
            /\ run.compute = "SUCCESS"
            /\ Stage.sig.task = "process_impact_result"
            /\ ing.analysis_id = Stage.sig.args.analysis_id
            /\ ing.request_id = Stage.id
            /\ ing.pc /= "failed" =>
                    /\ ing.impact_path = run.ret.file
                    /\ ing.is_zipfile => ing.names = run.ret.members
    /\ run.compute \in {"FAILURE", "TIME_LIMIT"} =>
            /\ run.pc = "dead"
            /\ ing.pc = "idle"
    /\ run.started <= 1

C14_Witness ==
    /\ ing.pc = "done"
    /\ ing.success
    /\ run.compute = "SUCCESS"
    /\ run.started = 1
    /\ ing.before.impact_layer /= NULL

\* C15: when process_impact_result returns false, the persisted Analysis
\* has the impact layer, task state, end time and reports it had before the
\* call: the call has written the task id and nothing else.
C15_NoResultLeavesAnalysis ==
    (ing.pc = "done" /\ ~ing.success) =>
        /\ ing.uploads = 0
        /\ analyses[ing.analysis_id].impact_layer = ing.before.impact_layer
        /\ analyses[ing.analysis_id].task_state = ing.before.task_state
        /\ analyses[ing.analysis_id].end_time = ing.before.end_time
        /\ analyses[ing.analysis_id].report_map = ing.before.report_map
        /\ analyses[ing.analysis_id].report_table = ing.before.report_table
        /\ analyses[ing.analysis_id].keep = ing.before.keep
        /\ analyses[ing.analysis_id].task_id = ing.request_id

C15_Witness ==
    /\ ing.pc = "done"
    /\ ~ing.success
    /\ ing.before.impact_layer /= NULL
    /\ ing.before.task_state = "SUCCESS"
    /\ ing.before.report_map /= NoFile
    /\ Len(ing.names) = MaxMembers

C20_SweeperSparesIncomingLayer ==
    [][\A m \in metadata :
            (/\ sw.pc = "metadata"
             /\ \A m2 \in metadata' : m2.id /= m.id
             /\ ing.pc = "save"
             /\ ing.analysis_id \in DOMAIN analyses
             /\ analyses[ing.analysis_id].keep)
                => m.layer /= ing.saved_layer]_vars

=============================================================================
